---- MODULE Spec2Model ----
(***************************************************************************)
(* Webhook delivery worker: the process-wide circuit breaker               *)
(* (WebhookCircuitBreaker), the delivery handler                           *)
(* (WebhookWorker.processJob wrapped by BaseWorker.processWithLogging),    *)
(* the enqueue endpoint's job options, and the queue engine's retry        *)
(* bookkeeping.                                                            *)
(*                                                                         *)
(* One job is followed in full through the queue; the other jobs of the    *)
(* same process appear as deliveries that run the same handler against the *)
(* shared breaker.  Times are in milliseconds.  The clock is kept relative:*)
(* the breaker carries Date.now() - lastFailureTime (saturating at the     *)
(* cooldown) and a delayed job the time left of its backoff.               *)
(***************************************************************************)
EXTENDS Integers, Sequences, FiniteSets, TLC

(* ---------------- bounds of the model ---------------- *)
MaxOthers == 1
MaxWatched == 4
MaxRetries == 3
MaxFailures == 7
NumWorkers == 2
MaxInflight == 1
MaxSignals == 3
MaxQueued == 2
MaxStops == 2
TicksPerTimeout == 3

(* ---------------- program constants ---------------- *)
threshold == 5
timeout == 60000
resetSuccesses == 3
DefaultAttempts == 5
BackoffDelay == 2000
Concurrency == 10
lockRenewTime == 15000
callbackMaxRetries == 3
shutdownTimeoutMs == 30000
forceExitMs == 10000
waitTimeoutMs == 5000
connectTimeout == 10000
requestTimeoutMs == 12000
nextRetryBase == 2000
retryLogBase == 2000
listenerDefaultAttempts == 3

VARIABLES
  circuitBreaker,  \* the module-level WebhookCircuitBreaker instance
  job,             \* the queue's record of the followed job and its handler's position
  others,          \* deliveries of other jobs in flight, by handler position
  hist,            \* observation log of what the handler did for the followed job
  lastCall,        \* observation log: the most recent isOpen() call at a job start
  recent,          \* observation log: the latest recorded outcomes, oldest first
  opened,          \* observation log: the breaker opened and its cooldown is running
  lease,           \* the queue's lock and stall bookkeeping for one job, and its workers
  notifier,        \* the sendCallback calls of the process
  proc,            \* the process: shutdown flag, timers, worker, handles, health server
  api,             \* POST /queue/webhooks/add: the queue's jobs and the last response
  conn,            \* connection.ts: the module's handles, a waitForReady call, commands
  norm,            \* one set of values sent in both wire shapes, and what is delivered
  delivery,        \* one delivery attempt of processJob: request, timer, outcome
  retry,           \* one job through its failed attempts: what the worker announces, what the queue does
  request,         \* one request of processJob: the job's method and timeout, what fetch is given
  stops            \* observation log: stop() calls made on the worker after it had stopped

vars == <<circuitBreaker, job, others, hist, lastCall, recent, opened,
          lease, notifier, proc, api, conn, norm,
          delivery, retry, request, stops>>
obs == <<lastCall, recent, opened>>
ext == <<lease, proc>>
io == <<api, conn, norm, delivery>>
late == <<retry, request, stops>>
exceptRetry == <<circuitBreaker, job, others, hist, lastCall, recent, opened,
                 lease, notifier, proc, api, conn, norm, delivery, request, stops>>
exceptRequest == <<circuitBreaker, job, others, hist, lastCall, recent, opened,
                   lease, notifier, proc, api, conn, norm, delivery, retry, stops>>

Max(a, b) == IF a >= b THEN a ELSE b

RECURSIVE Pow2(_)
Pow2(n) == IF n <= 0 THEN 1 ELSE 2 * Pow2(n - 1)

(* ---------------- WebhookCircuitBreaker ---------------- *)

\* variants of isOpenResult with a shifted comparison
isOpenResult_AboveThreshold(b) ==
  b.failures > threshold /\ b.sinceLastFailure < timeout

isOpenResult_InclusiveCooldown(b) ==
  b.failures >= threshold /\ b.sinceLastFailure <= timeout

\* value returned by isOpen() for breaker b
isOpenResult(b) ==
  b.failures >= threshold /\ b.sinceLastFailure < timeout

\* variant of isOpen that clears the counter once the cooldown has elapsed
isOpen_FullReset(b) ==
  IF b.failures >= threshold /\ ~(b.sinceLastFailure < timeout)
    THEN [b EXCEPT !.failures = 0]
    ELSE b

\* breaker after isOpen(): one failure is forgiven once the cooldown has elapsed
isOpen(b) ==
  IF b.failures >= threshold /\ ~(b.sinceLastFailure < timeout)
    THEN [b EXCEPT !.failures = Max(0, b.failures - 1)]
    ELSE b

\* variant of recordSuccess that leaves the failure counter alone
recordSuccess_KeepsFailures(b) ==
  IF b.successes + 1 >= resetSuccesses
    THEN [b EXCEPT !.successes = 0]
    ELSE [b EXCEPT !.successes = b.successes + 1]

recordSuccess(b) ==
  IF b.successes + 1 >= resetSuccesses
    THEN [b EXCEPT !.failures = 0, !.successes = 0]
    ELSE [b EXCEPT !.successes = b.successes + 1]

recordFailure(b) ==
  [b EXCEPT !.failures = b.failures + 1, !.successes = 0, !.sinceLastFailure = 0]

\* breaker after getStats(): it evaluates isOpen() to fill the isOpen field
getStats(b) == isOpen(b)

(* ---------------- enqueue endpoint and queue engine ---------------- *)

\* variant of EnqueueAttempts without the default
EnqueueAttempts_NoDefault(retries) == retries

\* attempts option given to queue.add: data.options?.retries || 5
EnqueueAttempts(retries) == IF retries # 0 THEN retries ELSE DefaultAttempts

\* variant whose exponent is the number of failed attempts
backoffDelay_FromAttemptsMade(k) == Pow2(k) * BackoffDelay

\* exponential backoff applied by the queue after the k-th failed attempt
backoffDelay(k) == Pow2(k - 1) * BackoffDelay

\* the queue's bookkeeping for an attempt that threw
moveToFailed(jr) ==
  LET made == jr.attemptsMade + 1 IN
  IF made < jr.attempts
    THEN [jr EXCEPT !.state = "delayed", !.attemptsMade = made,
                    !.delay = backoffDelay(made), !.pc = "idle"]
    ELSE [jr EXCEPT !.state = "failed", !.attemptsMade = made, !.pc = "idle"]

\* the queue's bookkeeping for an attempt that returned normally
moveToCompleted(jr) ==
  [jr EXCEPT !.state = "completed", !.attemptsMade = jr.attemptsMade + 1, !.pc = "idle"]

\* the job can be handed to a worker slot: waiting, or delayed with its backoff over
claimable ==
  \/ job.state = "waiting"
  \/ job.state = "delayed" /\ job.delay = 0

\* deliveries in flight in the process
ActiveCount ==
  others.fetch + others.log + (IF job.state = "active" THEN 1 ELSE 0)

(* ---------------- pieces of processJob ---------------- *)

\* variants of throwCircuitOpen: the error is swallowed and the handler returns;
\* the error is unrecoverable and the job is failed at once
throwCircuitOpen_Swallowed(jr) == moveToCompleted(jr)

throwCircuitOpen_Unrecoverable(jr) ==
  [jr EXCEPT !.state = "failed", !.attemptsMade = jr.attemptsMade + 1, !.pc = "idle"]

\* the breaker is open: throw new Error("Circuit breaker is open..."), rethrown by
\* processWithLogging to the queue as an ordinary failure
throwCircuitOpen(jr) == moveToFailed(jr)

\* processWithLogging finds no tenantId in the job data: throw new Error("tenantId
\* ausente no job data"), an ordinary failure for the queue
throwNoTenant(jr) == moveToFailed(jr)

\* variant of successCallback that sends nothing
successCallback_Missing(jr, cbs) == cbs

\* callbacks sent so far, after the success branch: sendCallback with status
\* "success" when the job has a callback URL and a secret
successCallback(jr, cbs) == IF jr.callback THEN Append(cbs, "success") ELSE cbs

\* status of the error callback: willRetry ? "retrying" : "failed"
errorCallbackStatus(jr) ==
  LET attemptNumber == jr.attemptsMade + 1
      maxAttempts == IF jr.attempts # 0 THEN jr.attempts ELSE DefaultAttempts
  IN IF attemptNumber < maxAttempts THEN "retrying" ELSE "failed"

\* callbacks sent so far, after the catch block
errorCallback(jr, cbs) ==
  IF jr.callback THEN Append(cbs, errorCallbackStatus(jr)) ELSE cbs

(* ---------------- sendCallback ---------------- *)

\* variant of callbackLoopContinues that runs the loop once more
callbackLoopContinues_OneMore(attempt, maxRetries) == attempt <= maxRetries + 1

\* loop condition of sendCallback: for (attempt = 1; attempt <= maxRetries; attempt++)
callbackLoopContinues(attempt, maxRetries) == attempt <= maxRetries

\* variant of callbackDelay whose first pause is one second
callbackDelay_FromOneSecond(attempt) == Pow2(attempt - 1) * 1000

\* pause before the next POST: Math.pow(2, attempt) * 1000
callbackDelay(attempt) == Pow2(attempt) * 1000

\* the loop of call n moves on to its next iteration: a POST is issued, or the loop is
\* over and sendCallback returns
callbackNextIteration(n) ==
  LET a == n.attempt + 1 IN
  IF callbackLoopContinues(a, n.maxRetries)
    THEN [n EXCEPT !.attempt = a, !.phase = "fetch", !.posts = @ + 1, !.delay = 0]
    ELSE [n EXCEPT !.attempt = a, !.phase = "returned", !.delay = 0]

\* a POST of call n failed (non-2xx, timeout or transport error)
callbackAfterFailedPost(n) ==
  IF n.attempt < n.maxRetries
    THEN [n EXCEPT !.phase = "sleep", !.delay = callbackDelay(n.attempt)]
    ELSE callbackNextIteration(n)

\* sendCallback(payload, callbackUrl, callbackSecret) is called: it runs up to its
\* first POST; the call followed in full is the oldest one still running
sendCallback(n) ==
  IF n.phase \in {"fetch", "sleep"}
    THEN [n EXCEPT !.bg = @ + 1]
    ELSE callbackNextIteration([n EXCEPT !.attempt = 0, !.posts = 0, !.ok = FALSE,
                                         !.maxRetries = callbackMaxRetries])

\* variant of callbackAwaited in which the handler awaits sendCallback
callbackAwaited_Await(n) == n.phase \in {"fetch", "sleep"} \/ n.bg > 0

\* the handler has to wait for sendCallback before it goes on: never, the promise is
\* given a .catch and left alone
callbackAwaited(n) == FALSE

(* ---------------- shutdown and health reporting ---------------- *)

\* BaseWorker.isActive(): this.isRunning && !this.worker.closing
isActive(p) == p.isRunning /\ ~p.closing

\* variant of getHealthStatus that looks at the shutdown flag last
getHealthStatus_FlagLast(shutting, redisConnected, active) ==
  IF redisConnected /\ active THEN "healthy"
  ELSE IF shutting THEN "unhealthy" ELSE "degraded"

\* the status field computed by getHealthStatus
getHealthStatus(shutting, redisConnected, active) ==
  IF shutting THEN "unhealthy"
  ELSE IF redisConnected /\ active THEN "healthy" ELSE "degraded"

\* HTTP status of GET /queue/health
healthCode(status, redisConnected) ==
  IF status = "healthy" /\ redisConnected THEN 200 ELSE 503

\* HTTP status of GET /queue/ready
readyCode(status, shutting) ==
  IF status = "healthy" /\ ~shutting THEN 200 ELSE 503

\* the process after the handler of /queue/health or /queue/ready has computed the
\* status and written its response
healthResponse(p, redisConnected) ==
  LET status == getHealthStatus(p.isShuttingDown, redisConnected, p.req.isActive)
  IN [p EXCEPT
        !.req = [endpoint |-> "none", isActive |-> FALSE],
        !.resp = [endpoint |-> p.req.endpoint,
                  status |-> status,
                  code |-> IF p.req.endpoint = "health"
                             THEN healthCode(status, redisConnected)
                             ELSE readyCode(status, p.isShuttingDown),
                  shutting |-> p.isShuttingDown,
                  ping |-> redisConnected,
                  active |-> isActive(p)]]

\* variant of stopBegins without the guard
stopBegins_Always(p) == TRUE

\* BaseWorker.stop() does its work: if (this.isRunning)
stopBegins(p) == p.isRunning

\* variant of alreadyShuttingDown without the guard
alreadyShuttingDown_NoGuard(p) == FALSE

\* gracefulShutdown's guard: if (isShuttingDown)
alreadyShuttingDown(p) == p.isShuttingDown

\* variant of deadlineArmed in which the 30 s timer is never set
deadlineArmed_Never(p) == FALSE

\* the 30 s timer set by the first gracefulShutdown, cleared right before its exit
deadlineArmed(p) == p.isShuttingDown /\ p.pc # "exited"

\* worker.close() resolves once no job is in flight in this worker
workerCloseResolved(p) == p.inflight = 0

\* variant of stopProceeds that does not wait for worker.close()
stopProceeds_NoAwait(p) == TRUE

\* BaseWorker.stop goes on to the blocking client after: await this.worker.close()
stopProceeds(p) == workerCloseResolved(p)

\* variant of teardownAfter that closes the HTTP server before the shared handle
teardownAfter_ServerFirst(step) ==
  CASE step = "stopWorker" -> "quitBlocking"
    [] step = "quitBlocking" -> "closeServer"
    [] step = "closeServer" -> "quitShared"
    [] OTHER -> "exit0"

\* the step that follows a settled step of the teardown
teardownAfter(step) ==
  CASE step = "stopWorker" -> "quitBlocking"
    [] step = "quitBlocking" -> "quitShared"
    [] step = "quitShared" -> "closeServer"
    [] OTHER -> "exit0"

\* log entry of a settled step
doneOf(step) ==
  CASE step = "stopWorker" -> "stopWorkerDone"
    [] step = "quitBlocking" -> "quitBlockingDone"
    [] step = "quitShared" -> "quitSharedDone"
    [] OTHER -> "closeServerDone"

\* the teardown as the change log lists it
TeardownOrder ==
  <<"stopWorker", "stopWorkerDone", "quitBlocking", "quitBlockingDone",
    "quitShared", "quitSharedDone", "closeServer", "closeServerDone", "exit0">>

\* process.exit(code)
exitWith(p, code, entry) ==
  [p EXCEPT !.pc = "exited", !.exitCode = code, !.trace = Append(@, entry)]

\* the step `step` of p has settled: the next one is started
settleAndGoOn(p, step) ==
  LET next == teardownAfter(step)
      q == [p EXCEPT !.trace = Append(@, doneOf(step))]
  IN CASE next = "quitBlocking" ->
            [q EXCEPT !.pc = next, !.blocking = "closing", !.trace = Append(@, next)]
       [] next = "quitShared" ->
            [q EXCEPT !.pc = next, !.shared = "closing", !.trace = Append(@, next)]
       [] next = "closeServer" ->
            [q EXCEPT !.pc = next, !.server = "closing", !.trace = Append(@, next)]
       [] OTHER -> exitWith(q, 0, "exit0")

(* ---------------- observation logs ---------------- *)

\* the log of recorded outcomes keeps the latest five
logOutcome(r, o) ==
  LET s == Append(r, o) IN IF Len(s) > threshold THEN Tail(s) ELSE s

\* an isOpen() call on breaker b, as seen by the caller
callOf(b) ==
  [expected |-> (b.failures >= 5 /\ b.sinceLastFailure < 60000),
   afterOpen |-> (opened /\ b.sinceLastFailure < 60000),
   result |-> isOpenResult(b)]

(* ---------------- worker options and the queue's lock protocol ---------------- *)

core == <<circuitBreaker, job, others, hist, lastCall, recent, opened>>

Workers == 1..NumWorkers

\* variant of workerOptions with the library's default for maxStalledCount
workerOptions_SingleStall ==
  [lockDuration |-> 60000, stalledInterval |-> 30000, maxStalledCount |-> 1]

\* the options WebhookWorker passes to the queue library
workerOptions ==
  [lockDuration |-> 60000, stalledInterval |-> 30000, maxStalledCount |-> 2]

\* some worker's lock on the job has not expired
lockHeld(l) == \E w \in Workers : l.ttl[w] > 0

\* variant of isStalled that does not look at the lock
isStalled_IgnoresLock(l) == l.state = "active" /\ l.marked

\* the stall check finds the job stalled: active, marked by an earlier check and not
\* unmarked by a renewal since, and its lock gone
isStalled(l) == l.state = "active" /\ l.marked /\ ~lockHeld(l)

(* ---------------- initial state ---------------- *)

(* ---------------- connection.ts ---------------- *)

\* no waitForReady call is running
idleWait ==
  [phase |-> "idle", caller |-> "none", elapsed |-> 0, reconnects |-> 0,
   reentries |-> 0, startedClosed |-> FALSE, cause |-> "none"]

\* getRedisSingleton(): the module's singleton, created on the first call; a new
\* IORedis with lazyConnect false starts connecting at once
getRedisSingleton(c) ==
  IF c.singleton # 0 THEN c
  ELSE [c EXCEPT !.singleton = c.created + 1, !.created = c.created + 1,
                 !.status = "connecting", !.connectElapsed = 0]

\* variant of waitForReady that only listens on a closed handle
waitBranch_CloseListens(status) ==
  IF status = "ready" THEN "return" ELSE "listen"

\* the branch waitForReady takes for a status of the client
waitBranch(status) ==
  IF status = "ready" THEN "return"
  ELSE IF status \in {"connecting", "reconnecting"} THEN "listen"
  ELSE IF status \in {"end", "close"} THEN "connect"
  ELSE "listen"

\* pingRedisSafe: c.ping() follows the await of waitForReady
pingAfterWait(c) ==
  IF c.wait.phase = "returned" /\ c.wait.caller = "ping"
  THEN [c EXCEPT !.lastCmd = [kind |-> "ping", status |-> c.status]]
  ELSE c

\* waitForReady from its entry to its return or its first await
waitForReady(c) ==
  LET b == waitBranch(c.status) IN
  IF b = "return" THEN [c EXCEPT !.wait.phase = "returned"]
  ELSE IF b = "listen" THEN [c EXCEPT !.wait.phase = "listening"]
  ELSE [c EXCEPT !.wait.phase = "awaitConnect",
                 !.wait.reconnects = @ + 1,
                 !.status = "connecting", !.connectElapsed = 0]

\* the client emits "ready": onReady resolves a listening call; a resolved
\* connect() re-enters waitForReady
onReady(c) ==
  IF c.wait.phase = "listening" THEN pingAfterWait([c EXCEPT !.wait.phase = "returned"])
  ELSE IF c.wait.phase = "awaitConnect"
  THEN pingAfterWait(waitForReady([c EXCEPT !.wait.reentries = @ + 1]))
  ELSE c

\* the client emits "error": onError rejects a listening call
onError(c) ==
  IF c.wait.phase = "listening"
  THEN [c EXCEPT !.wait.phase = "failed", !.wait.cause = "error"]
  ELSE c

\* the client emits "close": a pending connect() rejects
onClose(c) ==
  IF c.wait.phase = "awaitConnect"
  THEN [c EXCEPT !.wait.phase = "failed", !.wait.cause = "connect"]
  ELSE c

\* setTimeout(onTimeout, timeoutMs) has fired
waitTimedOut(elapsed, timeoutMs) == elapsed >= timeoutMs

\* the callers of the shared handle that await waitForReady before their command
callerWaits(kind) == kind \in {"ping"}

(* ---------------- processJob: the request and its outcome ---------------- *)

\* response.ok
responseOk(status) == status >= 200 /\ status <= 299

\* the catch block's errorCategory for an error name and the texts its message
\* includes
errorCategory(name, message) ==
  IF name \in {"AbortError", "TimeoutError"} THEN "TIMEOUT"
  ELSE IF "fetch failed" \in message THEN "CONNECTION_FAILED"
  ELSE IF "ENOTFOUND" \in message THEN "DNS_ERROR"
  ELSE IF "ECONNREFUSED" \in message THEN "CONNECTION_REFUSED"
  ELSE "UNKNOWN_ERROR"

\* the attempt ends in the catch block with this error
caught(d, name, message) ==
  [d EXCEPT !.phase = "done", !.thrown = TRUE, !.name = name,
            !.message = message, !.category = errorCategory(name, message)]

\* the timer's controller.abort() rejects a pending fetch with an AbortError
abortFetch(d) ==
  IF d.phase = "fetch" /\ d.timer /\ d.elapsed >= requestTimeoutMs
  THEN caught(d, "AbortError", {})
  ELSE d

(* ---------------- POST /queue/webhooks/add ---------------- *)

\* JavaScript values of the request fields: a missing field is undefined
Undef == "undefined"
falsy == {Undef, "0", "", "null", "false"}
truthy(v) == v \notin falsy

\* data.destination: missing, or an object with its own fields
NoDestination == [type |-> Undef]
Destination(u, m, h, b) ==
  [type |-> "object", url |-> u, method |-> m, headers |-> h, body |-> b]

\* x || {}
orEmptyObject(v) == IF truthy(v) THEN v ELSE "{}"

\* JSON.parse(body) of a text that is not JSON throws
SyntaxError == [type |-> "SyntaxError"]

\* crypto.createHmac("sha256", secret).update(body).digest("hex"): a digest is
\* determined by the key and the text signed
createHmac(secret, body) == <<secret, body>>

\* variant that accepts any Bearer token
authenticate_AnyBearer(secret, hmacSignature, authHeader, body) ==
  IF hmacSignature # <<>> THEN hmacSignature = createHmac(secret, body)
  ELSE authHeader # <<>> /\ authHeader[1] = "Bearer "

\* authenticated: the signature alone decides when the signature header is
\* present, otherwise a Bearer token equal to the secret
authenticate(secret, hmacSignature, authHeader, body) ==
  IF hmacSignature # <<>> THEN hmacSignature = createHmac(secret, body)
  ELSE IF authHeader # <<>> /\ authHeader[1] = "Bearer "
       THEN authHeader[2] = secret
       ELSE FALSE

isNewFormat(data) == data.destination.type = "object"

\* the 400 checks: tenantId, then the required fields of the shape
validationError(data) ==
  IF ~truthy(data.tenantId) THEN TRUE
  ELSE IF isNewFormat(data)
       THEN ~truthy(data.destination.url) \/ ~truthy(data.destination.method)
       ELSE ~truthy(data.integrationId) \/ ~truthy(data.url) \/ ~truthy(data.method)

\* the job data passed to queue.add, by shape
jobPayload(data) ==
  IF isNewFormat(data)
  THEN [tenantId |-> data.tenantId, integrationId |-> data.integrationId,
        destination |-> data.destination]
  ELSE [tenantId |-> data.tenantId, integrationId |-> data.integrationId,
        destination |-> NoDestination,
        url |-> data.url, method |-> data.method,
        headers |-> orEmptyObject(data.headers), body |-> orEmptyObject(data.body)]

\* processJob: url, method, headers and body of the request, by shape
deliveryRequest(data) ==
  IF isNewFormat(data)
  THEN [url |-> data.destination.url,
        method |-> data.destination.method,
        headers |-> orEmptyObject(data.destination.headers),
        body |-> data.destination.body]
  ELSE [url |-> data.url,
        method |-> IF truthy(data.method) THEN data.method ELSE "POST",
        headers |-> orEmptyObject(data.headers),
        body |-> data.body]

\* the status code of the response and the queue after the request
enqueueOutcome(queue, secret, hmacSignature, authHeader, text, data, addOk) ==
  IF secret = "" THEN [code |-> 500, queue |-> queue]
  ELSE IF ~authenticate(secret, hmacSignature, authHeader, text)
  THEN [code |-> 401, queue |-> queue]
  ELSE IF data = SyntaxError THEN [code |-> 500, queue |-> queue]
  ELSE IF validationError(data) THEN [code |-> 400, queue |-> queue]
  ELSE IF ~addOk THEN [code |-> 500, queue |-> queue]
  ELSE [code |-> 201, queue |-> Append(queue, jobPayload(data))]

(* ---------------- the request of processJob ---------------- *)

\* delay of the abort timer for a job whose destination.timeout is timeoutMs (0: not
\* given): setTimeout(() => controller.abort(), 12000)
requestDeadline(timeoutMs) == requestTimeoutMs

\* method given to fetch: method || "POST"
fetchMethod(method) == IF truthy(method) THEN method ELSE "POST"

(* ---------------- retry announcements ---------------- *)

\* backoff option given to queue.add: data.options?.backoff || 2000
EnqueueBackoff(backoff) == IF backoff # 0 THEN backoff ELSE BackoffDelay

\* exponential backoff of the queue engine after the k-th failed attempt of a job
\* whose options carry the delay `base`
exponentialBackoff(base, k) == Pow2(k - 1) * base

\* error.isRetryable of the failure callback: the category is a transport category
isRetryable(category) ==
  category \in {"TIMEOUT", "CONNECTION_FAILED", "DNS_ERROR", "CONNECTION_REFUSED"}

\* no callback, no listener line
NoCallback ==
  [status |-> "none", isRetryable |-> FALSE, attempt |-> 0, maxAttempts |-> 0,
   nextRetryIn |-> -1]
NoLine == [event |-> "none", attempt |-> 0, max_attempts |-> 0, delay_ms |-> -1]

\* the failure callback built in processJob's catch block for a job with
\* job.attemptsMade = attemptsMade and job.opts.attempts = attempts; nextRetryIn is
\* execution.nextRetryAt minus execution.completedAt, -1 when nextRetryAt is undefined
failureCallback(attemptsMade, attempts, category) ==
  LET attemptNumber == attemptsMade + 1
      maxAttempts == IF attempts # 0 THEN attempts ELSE DefaultAttempts
      willRetry == attemptNumber < maxAttempts
  IN [status |-> IF willRetry THEN "retrying" ELSE "failed",
      isRetryable |-> isRetryable(category),
      attempt |-> attemptNumber,
      maxAttempts |-> maxAttempts,
      nextRetryIn |-> IF willRetry THEN Pow2(attemptNumber) * nextRetryBase ELSE -1]

\* the lines logged by the worker's "failed" listener for the job object it is given
failedListener(attemptsMade, attempts) ==
  LET max == IF attempts # 0 THEN attempts ELSE listenerDefaultAttempts
      willRetry == attemptsMade + 1 < max
  IN [event |-> IF willRetry THEN "job_retry" ELSE "job_dead",
      attempt |-> attemptsMade + 1,
      max_attempts |-> max,
      delay_ms |-> IF willRetry THEN Pow2(attemptsMade + 1) * retryLogBase ELSE -1]

\* the queue's bookkeeping for a thrown attempt of a job with its own backoff option
moveToFailedWithBackoff(r) ==
  LET made == r.attemptsMade + 1 IN
  IF made < r.attempts
    THEN [r EXCEPT !.state = "delayed", !.attemptsMade = made,
                   !.applied = exponentialBackoff(r.base, made)]
    ELSE [r EXCEPT !.state = "failed", !.attemptsMade = made, !.applied = -1]

Init ==
  /\ circuitBreaker = [failures |-> 0, successes |-> 0, sinceLastFailure |-> timeout]
  /\ job = [state |-> "none", attempts |-> 0, attemptsMade |-> 0, delay |-> 0,
            callback |-> FALSE, pc |-> "idle", success |-> FALSE, tenantId |-> TRUE]
  /\ others = [fetch |-> 0, log |-> 0]
  /\ hist = [requests |-> 0, fastFails |-> 0, callbacks |-> <<>>,
             updates |-> 0, startedOpen |-> FALSE]
  /\ lastCall = [expected |-> FALSE, afterOpen |-> FALSE, result |-> FALSE]
  /\ recent = <<>>
  /\ opened = FALSE
  /\ lease = [state |-> "waiting", ttl |-> [w \in Workers |-> 0],
              running |-> [w \in Workers |-> "idle"],
              renewDue |-> [w \in Workers |-> FALSE],
              marked |-> FALSE, stalledCounter |-> 0, attemptsMade |-> 0,
              sinceCheck |-> 0]
  /\ notifier = [phase |-> "none", attempt |-> 0, posts |-> 0, maxRetries |-> 0,
                 delay |-> 0, ok |-> FALSE, bg |-> 0]
  /\ proc = [isShuttingDown |-> FALSE, pc |-> "running", exitCode |-> -1,
             elapsed |-> 0, forceTimer |-> -1, signals |-> 0,
             closing |-> FALSE, isRunning |-> TRUE, inflight |-> 0,
             blocking |-> "open", shared |-> "open", server |-> "listening",
             trace |-> <<>>, sawInflight |-> FALSE,
             req |-> [endpoint |-> "none", isActive |-> FALSE],
             resp |-> [endpoint |-> "none", status |-> "none", code |-> 0,
                       shutting |-> FALSE, ping |-> FALSE, active |-> FALSE]]
  /\ api = [queue |-> <<>>,
            last |-> [code |-> 0, sigOk |-> FALSE, tokenOk |-> FALSE,
                      shape |-> "none", complete |-> FALSE]]
  /\ norm = [phase |-> "none"]
  /\ delivery = [phase |-> "idle", elapsed |-> 0, timer |-> FALSE,
                 statusCode |-> 0, success |-> FALSE, thrown |-> FALSE,
                 name |-> "none", message |-> {}, category |-> "none"]
  /\ conn = [redisConnection |-> 1, singleton |-> 0, created |-> 1,
             status |-> "none", connectElapsed |-> 0,
             wait |-> idleWait,
             lastCmd |-> [kind |-> "none", status |-> "none"]]
  /\ retry = [state |-> "none", pc |-> "idle", attempts |-> 0, base |-> 0,
              attemptsMade |-> 0, applied |-> -1, category |-> "none",
              callback |-> NoCallback, line |-> NoLine]
  /\ request = [phase |-> "idle", shape |-> "none", jobMethod |-> Undef,
                jobTimeout |-> 0, method |-> "none", deadline |-> 0,
                elapsed |-> 0, aborted |-> FALSE]
  /\ stops = 0

(* ---------------- the followed job ---------------- *)

\* POST /queue/webhooks/add with valid credentials and required fields
Enqueue(retries, cb) ==
  /\ job.state = "none"
  /\ job' = [job EXCEPT !.state = "waiting",
                        !.attempts = EnqueueAttempts(retries),
                        !.callback = cb]
  /\ UNCHANGED <<circuitBreaker, others, hist, obs, ext, notifier, io, late>>

\* a worker slot claims the job and processJob finds the breaker open: it throws
\* before any request, and the queue records a failed attempt
ProcessJobCircuitOpen ==
  /\ claimable
  /\ ActiveCount < Concurrency
  /\ job.tenantId
  /\ isOpenResult(circuitBreaker)
  /\ circuitBreaker' = getStats(isOpen(circuitBreaker))
  /\ job' = throwCircuitOpen(job)
  /\ hist' = [hist EXCEPT !.fastFails = @ + 1, !.updates = 0,
                !.startedOpen = (circuitBreaker.failures >= 5
                                 /\ circuitBreaker.sinceLastFailure < 60000)]
  /\ UNCHANGED <<others, obs, ext, notifier, io, late>>

\* a worker slot claims the job, the breaker lets it through and fetch() is called
ProcessJobFetch ==
  /\ claimable
  /\ ActiveCount < Concurrency
  /\ job.tenantId
  /\ ~isOpenResult(circuitBreaker)
  /\ circuitBreaker' = isOpen(circuitBreaker)
  /\ job' = [job EXCEPT !.state = "active", !.pc = "fetch", !.success = FALSE]
  /\ hist' = [hist EXCEPT !.requests = @ + 1, !.updates = 0,
                !.startedOpen = (circuitBreaker.failures >= 5
                                 /\ circuitBreaker.sinceLastFailure < 60000)]
  /\ UNCHANGED <<others, obs, ext, notifier, io, late>>

\* the destination answers 2xx: recordSuccess, success callback, then saveWebhookLog
FetchOk ==
  /\ job.pc = "fetch"
  /\ circuitBreaker' = recordSuccess(circuitBreaker)
  /\ job' = [job EXCEPT !.pc = "log", !.success = TRUE]
  /\ hist' = [hist EXCEPT !.updates = @ + 1,
                          !.callbacks = successCallback(job, @)]
  /\ notifier' = IF job.callback THEN sendCallback(notifier) ELSE notifier
  /\ UNCHANGED <<others, obs, ext, io, late>>

\* the destination answers non-2xx: recordFailure in the else branch, then saveWebhookLog
FetchHttpError ==
  /\ job.pc = "fetch"
  /\ circuitBreaker.failures < MaxFailures
  /\ circuitBreaker' = recordFailure(circuitBreaker)
  /\ job' = [job EXCEPT !.pc = "log", !.success = FALSE]
  /\ hist' = [hist EXCEPT !.updates = @ + 1]
  /\ UNCHANGED <<others, obs, ext, notifier, io, late>>

\* fetch() throws (abort, timeout, transport error): the catch block records the
\* failure, reads getStats() for the log line and awaits saveWebhookLog
FetchThrows ==
  /\ job.pc = "fetch"
  /\ circuitBreaker.failures < MaxFailures
  /\ circuitBreaker' = getStats(recordFailure(circuitBreaker))
  /\ job' = [job EXCEPT !.pc = "errlog", !.success = FALSE]
  /\ hist' = [hist EXCEPT !.updates = @ + 1]
  /\ UNCHANGED <<others, obs, ext, notifier, io, late>>

\* saveWebhookLog of the try block has settled after a 2xx: processJob returns
LogDoneReturn ==
  /\ job.pc = "log"
  /\ job.success
  /\ ~callbackAwaited(notifier)
  /\ job' = moveToCompleted(job)
  /\ UNCHANGED <<circuitBreaker, others, hist, obs, ext, notifier, io, late>>

\* saveWebhookLog of the try block has settled after a non-2xx: the handler throws
\* "HTTP <status>", which its own catch block handles like a thrown fetch
LogDoneThrow ==
  /\ job.pc = "log"
  /\ ~job.success
  /\ circuitBreaker.failures < MaxFailures
  /\ circuitBreaker' = getStats(recordFailure(circuitBreaker))
  /\ job' = [job EXCEPT !.pc = "errlog"]
  /\ hist' = [hist EXCEPT !.updates = @ + 1]
  /\ UNCHANGED <<others, obs, ext, notifier, io, late>>

\* saveWebhookLog of the catch block has settled: error callback, rethrow
ErrLogDone ==
  /\ job.pc = "errlog"
  /\ job' = moveToFailed(job)
  /\ hist' = [hist EXCEPT !.callbacks = errorCallback(job, @)]
  /\ notifier' = IF job.callback THEN sendCallback(notifier) ELSE notifier
  /\ UNCHANGED <<circuitBreaker, others, obs, ext, io, late>>

(* ---------------- deliveries of the other jobs ---------------- *)

\* another job is claimed with the breaker closed and its request is issued
OtherFetchStep(limit) ==
  /\ others.fetch + others.log < limit
  /\ ActiveCount < Concurrency
  /\ ~proc.closing
  /\ ~isOpenResult(circuitBreaker)
  /\ circuitBreaker' = isOpen(circuitBreaker)
  /\ others' = [others EXCEPT !.fetch = @ + 1]
  /\ UNCHANGED <<job, hist, ext, notifier, io, late>>

\* another job is claimed with the breaker open: it fails fast
OtherCircuitOpenStep(limit) ==
  /\ others.fetch + others.log < limit
  /\ ActiveCount < Concurrency
  /\ ~proc.closing
  /\ isOpenResult(circuitBreaker)
  /\ circuitBreaker' = getStats(isOpen(circuitBreaker))
  /\ UNCHANGED <<job, others, hist, ext, notifier, io, late>>

OtherFetchOkStep ==
  /\ others.fetch > 0
  /\ circuitBreaker' = recordSuccess(circuitBreaker)
  /\ others' = [others EXCEPT !.fetch = @ - 1]
  /\ UNCHANGED <<job, hist, ext, notifier, io, late>>

OtherFetchHttpErrorStep ==
  /\ others.fetch > 0
  /\ circuitBreaker.failures < MaxFailures
  /\ circuitBreaker' = recordFailure(circuitBreaker)
  /\ others' = [others EXCEPT !.fetch = @ - 1, !.log = @ + 1]
  /\ UNCHANGED <<job, hist, ext, notifier, io, late>>

OtherFetchThrowsStep ==
  /\ others.fetch > 0
  /\ circuitBreaker.failures < MaxFailures
  /\ circuitBreaker' = getStats(recordFailure(circuitBreaker))
  /\ others' = [others EXCEPT !.fetch = @ - 1]
  /\ UNCHANGED <<job, hist, ext, notifier, io, late>>

OtherLogDoneThrowStep ==
  /\ others.log > 0
  /\ circuitBreaker.failures < MaxFailures
  /\ circuitBreaker' = getStats(recordFailure(circuitBreaker))
  /\ others' = [others EXCEPT !.log = @ - 1]
  /\ UNCHANGED <<job, hist, ext, notifier, io, late>>

OtherFetch == OtherFetchStep(MaxOthers) /\ UNCHANGED obs
OtherFetchOk == OtherFetchOkStep /\ UNCHANGED obs
OtherFetchHttpError == OtherFetchHttpErrorStep /\ UNCHANGED obs
OtherFetchThrows == OtherFetchThrowsStep /\ UNCHANGED obs
OtherLogDoneThrow == OtherLogDoneThrowStep /\ UNCHANGED obs

(* ---------------- time ---------------- *)

\* the clock advances by one step; a claimable job is taken by an idle slot first
TickStep ==
  /\ ~(claimable /\ ActiveCount < Concurrency)
  /\ circuitBreaker' = [circuitBreaker EXCEPT
         !.sinceLastFailure = IF @ + BackoffDelay >= timeout THEN timeout
                              ELSE @ + BackoffDelay]
  /\ job' = [job EXCEPT !.delay = Max(0, @ - BackoffDelay)]
  /\ UNCHANGED <<others, hist, ext, notifier, io, late>>

Tick == TickStep /\ UNCHANGED obs

(* ---------------- the worker process ---------------- *)

Next ==
  \/ \E r \in 0..MaxRetries, cb \in BOOLEAN : Enqueue(r, cb)
  \/ ProcessJobCircuitOpen
  \/ ProcessJobFetch
  \/ FetchOk
  \/ FetchHttpError
  \/ FetchThrows
  \/ LogDoneReturn
  \/ LogDoneThrow
  \/ ErrLogDone
  \/ OtherFetch
  \/ OtherFetchOk
  \/ OtherFetchHttpError
  \/ OtherFetchThrows
  \/ OtherLogDoneThrow
  \/ Tick

Spec == Init /\ [][Next]_vars

(* ---------------- one job alone, destination always answering 500 ---------------- *)

NextAlone500 ==
  \/ \E r \in 0..MaxRetries, cb \in BOOLEAN : Enqueue(r, cb)
  \/ ProcessJobCircuitOpen
  \/ ProcessJobFetch
  \/ FetchHttpError
  \/ LogDoneThrow
  \/ ErrLogDone
  \/ Tick

SpecAlone500 == Init /\ [][NextAlone500]_vars

(* ---------------- the breaker under the deliveries of the process ---------------- *)

\* a job start evaluates isOpen(); the call and its result are logged
WatchedStart ==
  /\ (OtherFetchStep(MaxWatched) \/ OtherCircuitOpenStep(MaxWatched))
  /\ lastCall' = callOf(circuitBreaker)
  /\ UNCHANGED <<recent, opened>>

WatchedFetchOk ==
  /\ OtherFetchOkStep
  /\ recent' = logOutcome(recent, "S")
  /\ UNCHANGED <<lastCall, opened>>

WatchedFailure ==
  /\ (OtherFetchHttpErrorStep \/ OtherFetchThrowsStep \/ OtherLogDoneThrowStep)
  /\ recent' = logOutcome(recent, "F")
  /\ opened' = (opened \/ circuitBreaker'.failures >= 5)
  /\ UNCHANGED lastCall

WatchedTick ==
  /\ TickStep
  /\ opened' = (opened /\ circuitBreaker'.sinceLastFailure < 60000)
  /\ UNCHANGED <<lastCall, recent>>

NextBreaker ==
  \/ WatchedStart
  \/ WatchedFetchOk
  \/ WatchedFailure
  \/ WatchedTick

SpecBreaker == Init /\ [][NextBreaker]_vars

(* ---------------- one job under the lock and stall protocol ---------------- *)

\* worker w takes the waiting job and gets a lock of lockDuration on it
LeaseClaim(w) ==
  /\ lease.state = "waiting"
  /\ lease.running[w] = "idle"
  /\ lease' = [lease EXCEPT !.state = "active",
                            !.ttl[w] = workerOptions.lockDuration,
                            !.running[w] = "working",
                            !.renewDue[w] = FALSE]
  /\ UNCHANGED <<core, notifier, proc, io, late>>

\* the renewal timer of w fires while its handler runs: the lock is extended and the
\* job unmarked when w's lock is still there, nothing happens otherwise
LeaseRenew(w) ==
  /\ lease.running[w] = "working"
  /\ lease.renewDue[w]
  /\ lease' = IF lease.ttl[w] > 0
                THEN [lease EXCEPT !.ttl[w] = workerOptions.lockDuration,
                                   !.marked = FALSE, !.renewDue[w] = FALSE]
                ELSE [lease EXCEPT !.renewDue[w] = FALSE]
  /\ UNCHANGED <<core, notifier, proc, io, late>>

\* the process of w crashes or hangs: no more renewals
LeaseHang(w) ==
  /\ lease.running[w] = "working"
  /\ lease' = [lease EXCEPT !.running[w] = "hung"]
  /\ UNCHANGED <<core, notifier, proc, io, late>>

\* a hung worker runs again
LeaseResume(w) ==
  /\ lease.running[w] = "hung"
  /\ lease' = [lease EXCEPT !.running[w] = "working"]
  /\ UNCHANGED <<core, notifier, proc, io, late>>

\* the handler of w settles: with its lock still there the queue records the outcome
\* (the backoff of a retry is not kept here); without it the report is refused
LeaseFinish(w, ok) ==
  /\ lease.running[w] = "working"
  /\ lease' =
       IF lease.ttl[w] = 0 THEN [lease EXCEPT !.running[w] = "idle"]
       ELSE [lease EXCEPT
               !.running[w] = "idle",
               !.ttl[w] = 0,
               !.attemptsMade = @ + 1,
               !.state = IF ok THEN "completed"
                         ELSE IF lease.attemptsMade + 1 < DefaultAttempts
                                THEN "waiting" ELSE "failed"]
  /\ UNCHANGED <<core, notifier, proc, io, late>>

\* the stall check, every stalledInterval: a stalled job goes back to waiting, or to
\* failed once it has stalled more than maxStalledCount times; then every active job
\* is marked
StallCheck ==
  /\ lease.sinceCheck >= workerOptions.stalledInterval
  /\ lease' =
       IF isStalled(lease)
         THEN [lease EXCEPT
                 !.stalledCounter = @ + 1,
                 !.state = IF lease.stalledCounter + 1 > workerOptions.maxStalledCount
                             THEN "failed" ELSE "waiting",
                 !.marked = FALSE,
                 !.sinceCheck = 0]
         ELSE [lease EXCEPT !.marked = (lease.state = "active"), !.sinceCheck = 0]
  /\ UNCHANGED <<core, notifier, proc, io, late>>

\* lockRenewTime passes once the timers that are due have run
LeaseTick ==
  /\ lease.state \notin {"completed", "failed"}
  /\ lease.sinceCheck < workerOptions.stalledInterval
  /\ \A w \in Workers : lease.running[w] = "working" => ~lease.renewDue[w]
  /\ lease' = [lease EXCEPT
                 !.ttl = [w \in Workers |-> Max(0, lease.ttl[w] - lockRenewTime)],
                 !.renewDue = [w \in Workers |-> TRUE],
                 !.sinceCheck = @ + lockRenewTime]
  /\ UNCHANGED <<core, notifier, proc, io, late>>

NextLease ==
  \/ \E w \in Workers : LeaseClaim(w)
  \/ \E w \in Workers : LeaseRenew(w)
  \/ \E w \in Workers : LeaseHang(w)
  \/ \E w \in Workers : LeaseResume(w)
  \/ \E w \in Workers, ok \in BOOLEAN : LeaseFinish(w, ok)
  \/ StallCheck
  \/ LeaseTick

SpecLease == Init /\ [][NextLease]_vars

(* ---------------- the followed job and its callbacks ---------------- *)

\* the callback URL answers 2xx: sendCallback returns
CallbackOk ==
  /\ proc.pc # "exited"
  /\ notifier.phase = "fetch"
  /\ notifier' = [notifier EXCEPT !.ok = TRUE, !.phase = "returned"]
  /\ UNCHANGED <<core, ext, io, late>>

\* the callback URL answers non-2xx
CallbackHttpError ==
  /\ proc.pc # "exited"
  /\ notifier.phase = "fetch"
  /\ notifier' = callbackAfterFailedPost(notifier)
  /\ UNCHANGED <<core, ext, io, late>>

\* the POST throws: 10 s timeout or transport error
CallbackThrows ==
  /\ proc.pc # "exited"
  /\ notifier.phase = "fetch"
  /\ notifier' = callbackAfterFailedPost(notifier)
  /\ UNCHANGED <<core, ext, io, late>>

\* the pause before the next POST is over
CallbackSleepDone ==
  /\ proc.pc # "exited"
  /\ notifier.phase = "sleep"
  /\ notifier' = callbackNextIteration(notifier)
  /\ UNCHANGED <<core, ext, io, late>>

\* one of the other sendCallback calls in flight returns
CallbackOtherReturns ==
  /\ proc.pc # "exited"
  /\ notifier.bg > 0
  /\ notifier' = [notifier EXCEPT !.bg = @ - 1]
  /\ UNCHANGED <<core, ext, io, late>>

NextCallback ==
  \/ \E r \in 0..MaxRetries, cb \in BOOLEAN : Enqueue(r, cb)
  \/ ProcessJobCircuitOpen
  \/ ProcessJobFetch
  \/ FetchOk
  \/ FetchHttpError
  \/ FetchThrows
  \/ LogDoneReturn
  \/ LogDoneThrow
  \/ ErrLogDone
  \/ Tick
  \/ CallbackOk
  \/ CallbackHttpError
  \/ CallbackThrows
  \/ CallbackSleepDone
  \/ CallbackOtherReturns

SpecCallback == Init /\ [][NextCallback]_vars

(* ---------------- the process under termination signals ---------------- *)

\* the worker claims a job and its delivery starts
StartDelivery ==
  /\ proc.pc # "exited"
  /\ ~proc.closing
  /\ proc.inflight < MaxInflight
  /\ proc' = [proc EXCEPT !.inflight = @ + 1]
  /\ UNCHANGED <<core, lease, notifier, io, late>>

\* a delivery in flight is over: its HTTP call has finished or timed out and the
\* handler has settled
FinishDelivery ==
  /\ proc.pc # "exited"
  /\ proc.inflight > 0
  /\ proc' = [proc EXCEPT !.inflight = @ - 1]
  /\ UNCHANGED <<core, lease, notifier, io, late>>

\* SIGTERM, SIGINT, uncaughtException or unhandledRejection: gracefulShutdown runs up
\* to its first await.  The first call sets the flag and the 30 s timer and calls
\* stopWebhookWorker, which reads getStats() and calls worker.close(); a later call
\* sets a 10 s timer and returns
GracefulShutdown ==
  /\ proc.pc # "exited"
  /\ proc.signals < MaxSignals
  /\ IF alreadyShuttingDown(proc)
       THEN /\ proc' = [proc EXCEPT
                   !.signals = @ + 1,
                   !.forceTimer = IF @ = -1 THEN forceExitMs ELSE @]
            /\ UNCHANGED circuitBreaker
       ELSE /\ circuitBreaker' = getStats(circuitBreaker)
            /\ proc' = IF stopBegins(proc)
                 THEN [proc EXCEPT
                         !.signals = @ + 1, !.isShuttingDown = TRUE,
                         !.pc = "stopWorker", !.closing = TRUE,
                         !.sawInflight = (proc.inflight > 0),
                         !.trace = Append(@, "stopWorker")]
                 ELSE settleAndGoOn(
                        [proc EXCEPT !.signals = @ + 1, !.isShuttingDown = TRUE,
                                     !.trace = Append(@, "stopWorker")],
                        "quitBlocking")
  /\ UNCHANGED <<job, others, hist, obs, lease, notifier, io, late>>

\* worker.close() has resolved: blockingClient.quit() is called
WorkerClosed ==
  /\ proc.pc = "stopWorker"
  /\ stopProceeds(proc)
  /\ proc' = settleAndGoOn(proc, "stopWorker")
  /\ UNCHANGED <<core, lease, notifier, io, late>>

\* worker.close() rejects: gracefulShutdown's catch block exits with 1
WorkerCloseThrows ==
  /\ proc.pc = "stopWorker"
  /\ proc' = exitWith(proc, 1, "exit1")
  /\ UNCHANGED <<core, lease, notifier, io, late>>

\* blockingClient.quit() settles; a rejection is logged by stop().  isRunning is
\* cleared and gracefulShutdown goes on
BlockingQuitSettles(ok) ==
  /\ proc.pc = "quitBlocking"
  /\ proc' = settleAndGoOn(
               [proc EXCEPT !.blocking = IF ok THEN "closed" ELSE "error",
                            !.isRunning = FALSE],
               "quitBlocking")
  /\ UNCHANGED <<core, lease, notifier, io, late>>

\* redis.quit() settles; a rejection is logged by its .catch
SharedQuitSettles(ok) ==
  /\ proc.pc = "quitShared"
  /\ proc' = settleAndGoOn(
               [proc EXCEPT !.shared = IF ok THEN "closed" ELSE "error"],
               "quitShared")
  /\ UNCHANGED <<core, lease, notifier, io, late>>

\* healthServer.close() calls back once no request is being served
ServerClosed ==
  /\ proc.pc = "closeServer"
  /\ proc.req.endpoint = "none"
  /\ proc' = settleAndGoOn([proc EXCEPT !.server = "closed"], "closeServer")
  /\ UNCHANGED <<core, lease, notifier, io, late>>

\* the 30 s timer fires
DeadlineExit ==
  /\ deadlineArmed(proc)
  /\ proc.elapsed >= shutdownTimeoutMs
  /\ proc' = exitWith(proc, 1, "exit1")
  /\ UNCHANGED <<core, lease, notifier, io, late>>

\* a 10 s timer fires
ForceExit ==
  /\ proc.pc # "exited"
  /\ proc.forceTimer = 0
  /\ proc' = exitWith(proc, 1, "exit1")
  /\ UNCHANGED <<core, lease, notifier, io, late>>

\* 10 s pass during the shutdown, no timer being due
ShutdownTick ==
  /\ proc.isShuttingDown
  /\ proc.pc # "exited"
  /\ proc.elapsed < shutdownTimeoutMs
  /\ proc.forceTimer # 0
  /\ proc' = [proc EXCEPT
                !.elapsed = @ + forceExitMs,
                !.forceTimer = IF @ > 0 THEN Max(0, @ - forceExitMs) ELSE @]
  /\ UNCHANGED <<core, lease, notifier, io, late>>

\* GET /queue/health or /queue/ready arrives: getHealthStatus reads isActive() and
\* awaits isPaused() and the ping
HealthBegin(endpoint) ==
  /\ proc.pc # "exited"
  /\ proc.server = "listening"
  /\ proc.req.endpoint = "none"
  /\ proc' = [proc EXCEPT !.req = [endpoint |-> endpoint, isActive |-> isActive(proc)]]
  /\ UNCHANGED <<core, lease, notifier, io, late>>

\* the ping has settled: the status is computed and the response written
HealthEnd(redisConnected) ==
  /\ proc.pc # "exited"
  /\ proc.req.endpoint # "none"
  /\ proc' = healthResponse(proc, redisConnected)
  /\ UNCHANGED <<core, lease, notifier, io, late>>

NextShutdown ==
  \/ StartDelivery
  \/ FinishDelivery
  \/ GracefulShutdown
  \/ WorkerClosed
  \/ WorkerCloseThrows
  \/ \E ok \in BOOLEAN : BlockingQuitSettles(ok)
  \/ \E ok \in BOOLEAN : SharedQuitSettles(ok)
  \/ ServerClosed
  \/ DeadlineExit
  \/ ForceExit
  \/ ShutdownTick
  \/ \E endpoint \in {"health", "ready"} : HealthBegin(endpoint)
  \/ \E redisConnected \in BOOLEAN : HealthEnd(redisConnected)

\* timers fire: the event loop runs a due timer, and time passes
SpecShutdown ==
  /\ Init
  /\ [][NextShutdown]_vars
  /\ WF_vars(ShutdownTick)
  /\ WF_vars(DeadlineExit)
  /\ WF_vars(ForceExit)

(* ---------------- a job without tenantId ---------------- *)

\* a job whose data has no tenantId is in the queue, put there by another producer
\* of the same queue (the enqueue endpoint and BaseQueue.addJob refuse such a job)
EnqueueWithoutTenant(retries) ==
  /\ job.state = "none"
  /\ job' = [job EXCEPT !.state = "waiting",
                        !.attempts = EnqueueAttempts(retries),
                        !.tenantId = FALSE]
  /\ UNCHANGED <<circuitBreaker, others, hist, obs, ext, notifier, io, late>>

\* a worker slot claims the job and processWithLogging throws before processJob
ProcessJobNoTenant ==
  /\ claimable
  /\ ActiveCount < Concurrency
  /\ ~job.tenantId
  /\ job' = throwNoTenant(job)
  /\ UNCHANGED <<circuitBreaker, others, hist, obs, ext, notifier, io, late>>

NextTenant ==
  \/ \E r \in 0..MaxRetries, cb \in BOOLEAN : Enqueue(r, cb)
  \/ \E r \in 0..MaxRetries : EnqueueWithoutTenant(r)
  \/ ProcessJobNoTenant
  \/ ProcessJobCircuitOpen
  \/ ProcessJobFetch
  \/ FetchOk
  \/ FetchHttpError
  \/ LogDoneReturn
  \/ LogDoneThrow
  \/ ErrLogDone
  \/ Tick

SpecTenant == Init /\ [][NextTenant]_vars

(* ---------------- the enqueue endpoint ---------------- *)

Secrets == {"", "s3cret"}
Tokens == {"s3cret", "wrong"}
Texts == {"body", "other body"}
Signatures ==
  {<<>>, createHmac("wrong", "body")} \cup {createHmac("s3cret", t) : t \in Texts}
AuthHeaders == {<<>>, <<"Basic ", "s3cret">>} \cup {<<"Bearer ", k>> : k \in Tokens}
FieldValues == {Undef, "v"}
Destinations ==
  {NoDestination} \cup
  {Destination(u, m, Undef, Undef) : u \in FieldValues, m \in FieldValues}
Bodies ==
  [tenantId : {Undef, "0", "7"}, integrationId : FieldValues,
   destination : Destinations, url : FieldValues, method : FieldValues,
   headers : {Undef}, body : {Undef}]

\* the required fields the request carries, whatever their values
carried(data) ==
  {f \in {"tenantId", "integrationId", "url", "method"} : data[f] # Undef}
  \cup (IF data.destination.type = "object"
        THEN {f \in {"destination.url", "destination.method"} :
                data.destination[IF f = "destination.url" THEN "url" ELSE "method"] # Undef}
        ELSE {})

\* the fields the claim requires of a request, by its shape
requiredFields(data) ==
  IF data.destination.type = "object"
  THEN {"tenantId", "destination.url", "destination.method"}
  ELSE {"tenantId", "integrationId", "url", "method"}

\* one request to the endpoint, from the end of the body to the response
EnqueueRequest(secret, hmacSignature, authHeader, data, addOk) ==
  /\ Len(api.queue) < MaxQueued
  /\ LET out == enqueueOutcome(api.queue, secret, hmacSignature, authHeader,
                               "body", data, addOk)
     IN api' = [queue |-> out.queue,
                last |-> [code |-> out.code,
                          sigOk |-> secret # "" /\ hmacSignature = <<secret, "body">>,
                          tokenOk |-> /\ secret # ""
                                      /\ authHeader = <<"Bearer ", secret>>,
                          shape |-> IF data = SyntaxError THEN "none"
                                    ELSE IF data.destination.type = "object"
                                    THEN "canonical" ELSE "legacy",
                          complete |-> /\ data # SyntaxError
                                       /\ requiredFields(data) \subseteq carried(data)]]
  /\ UNCHANGED <<core, ext, notifier, conn, norm, delivery, late>>

NextEnqueue ==
  \E secret \in Secrets, hmacSignature \in Signatures, authHeader \in AuthHeaders,
     data \in Bodies \cup {SyntaxError}, addOk \in BOOLEAN :
    EnqueueRequest(secret, hmacSignature, authHeader, data, addOk)

SpecEnqueue == Init /\ [][NextEnqueue]_vars

(* ---------------- the shared connection ---------------- *)

Components == {"index", "BaseWorker", "BaseQueue"}

\* a component asks for the shared handle
GetRedisSingleton(component) ==
  /\ conn' = getRedisSingleton(conn)
  /\ UNCHANGED <<core, ext, notifier, api, norm, delivery, late>>

\* pingRedisSafe (caller "ping") or the BaseWorker constructor (caller "worker",
\* not awaited) calls waitForReady on the shared handle
WaitForReadyBegin(caller) ==
  /\ conn.singleton # 0
  /\ conn.wait.phase \in {"idle", "returned", "failed"}
  /\ conn' = pingAfterWait(waitForReady(
               [conn EXCEPT !.wait = [idleWait EXCEPT
                                        !.caller = caller,
                                        !.startedClosed =
                                           conn.status \in {"end", "close"}]]))
  /\ UNCHANGED <<core, ext, notifier, api, norm, delivery, late>>

\* a command issued on the shared handle by a caller that does not await
\* waitForReady: queue.add, queue.getJobCounts, the worker's lock renewals
IssueCommand(kind) ==
  /\ conn.singleton # 0
  /\ ~callerWaits(kind)
  /\ conn' = [conn EXCEPT !.lastCmd = [kind |-> kind, status |-> conn.status]]
  /\ UNCHANGED <<core, ext, notifier, api, norm, delivery, late>>

\* the connection is established
HandleReady ==
  /\ conn.status = "connecting"
  /\ conn' = onReady([conn EXCEPT !.status = "ready"])
  /\ UNCHANGED <<core, ext, notifier, api, norm, delivery, late>>

\* the transport fails: "error" then "close"
HandleError ==
  /\ conn.status \in {"connecting", "ready"}
  /\ conn' = onClose(onError([conn EXCEPT !.status = "close"]))
  /\ UNCHANGED <<core, ext, notifier, api, norm, delivery, late>>

\* the peer closes the connection
HandleClose ==
  /\ conn.status \in {"connecting", "ready"}
  /\ conn' = onClose([conn EXCEPT !.status = "close"])
  /\ UNCHANGED <<core, ext, notifier, api, norm, delivery, late>>

\* retryStrategy gives a delay: the client waits to reconnect
HandleReconnecting ==
  /\ conn.status = "close"
  /\ conn.wait.phase # "awaitConnect"
  /\ conn' = [conn EXCEPT !.status = "reconnecting"]
  /\ UNCHANGED <<core, ext, notifier, api, norm, delivery, late>>

\* the retry delay is over
HandleRetry ==
  /\ conn.status = "reconnecting"
  /\ conn' = [conn EXCEPT !.status = "connecting", !.connectElapsed = 0]
  /\ UNCHANGED <<core, ext, notifier, api, norm, delivery, late>>

\* quit() or disconnect(): the client ends
HandleEnd ==
  /\ conn.status \in {"connecting", "ready", "reconnecting", "close"}
  /\ conn' = onClose([conn EXCEPT !.status = "end"])
  /\ UNCHANGED <<core, ext, notifier, api, norm, delivery, late>>

\* waitTimeoutMs pass; a connection attempt is over after connectTimeout
ConnTick ==
  /\ conn.singleton # 0
  /\ conn.status = "connecting" => conn.connectElapsed < connectTimeout
  /\ LET e == conn.wait.elapsed + waitTimeoutMs
         ticking == conn.wait.phase \in {"listening", "awaitConnect"}
         c1 == [conn EXCEPT !.connectElapsed =
                              IF conn.status = "connecting"
                              THEN @ + waitTimeoutMs ELSE @,
                            !.wait.elapsed = IF ticking THEN e ELSE @]
     IN conn' = IF conn.wait.phase = "listening" /\ waitTimedOut(e, waitTimeoutMs)
                THEN [c1 EXCEPT !.wait.phase = "failed", !.wait.cause = "timeout"]
                ELSE c1
  /\ UNCHANGED <<core, ext, notifier, api, norm, delivery, late>>

\* a connection attempt that has lasted connectTimeout settles
ConnectSettles ==
  /\ conn.status = "connecting"
  /\ conn.connectElapsed >= connectTimeout
  /\ (HandleReady \/ HandleError)

NextConnection ==
  \/ \E component \in Components : GetRedisSingleton(component)
  \/ \E caller \in {"ping", "worker"} : WaitForReadyBegin(caller)
  \/ \E kind \in {"enqueue", "stats", "bookkeeping"} : IssueCommand(kind)
  \/ HandleReady
  \/ HandleError
  \/ HandleClose
  \/ HandleReconnecting
  \/ HandleRetry
  \/ HandleEnd
  \/ ConnTick

SpecConnection ==
  Init /\ [][NextConnection]_vars /\ WF_vars(ConnTick) /\ WF_vars(ConnectSettles)

(* ---------------- the two wire shapes ---------------- *)

Urls == {"https://a.example/hook", "https://b.example/hook"}
Methods == {"POST", "PUT", "GET"}
HeaderValues == {Undef, "{}", "{X-Key: k}"}
BodyValues == {Undef, "null", "0", "{}", "{id: 1}"}

\* the legacy request body carrying the values
legacyData(u, m, h, b) ==
  [tenantId |-> "7", integrationId |-> "3", destination |-> NoDestination,
   url |-> u, method |-> m, headers |-> h, body |-> b]

\* the canonical request body carrying the same values under destination
canonicalData(u, m, h, b) ==
  [tenantId |-> "7", integrationId |-> "3", destination |-> Destination(u, m, h, b),
   url |-> Undef, method |-> Undef, headers |-> Undef, body |-> Undef]

\* the job the endpoint puts in an empty queue for an authenticated request
enqueued(data) ==
  enqueueOutcome(<<>>, "s3cret", <<>>, <<"Bearer ", "s3cret">>, "body", data, TRUE).queue

\* the same values are sent to the endpoint once in each shape
EnqueuePair(u, m, h, b) ==
  /\ norm' = [phase |-> "queued",
              legacy |-> enqueued(legacyData(u, m, h, b)),
              canonical |-> enqueued(canonicalData(u, m, h, b))]
  /\ UNCHANGED <<core, ext, notifier, api, conn, delivery, late>>

\* the worker processes both jobs up to the request it sends
ProcessPair ==
  /\ norm.phase = "queued"
  /\ Len(norm.legacy) = 1 /\ Len(norm.canonical) = 1
  /\ norm' = [phase |-> "processed",
              legacy |-> <<deliveryRequest(norm.legacy[1])>>,
              canonical |-> <<deliveryRequest(norm.canonical[1])>>]
  /\ UNCHANGED <<core, ext, notifier, api, conn, delivery, late>>

NextNormalize ==
  \/ \E u \in Urls, m \in Methods, h \in HeaderValues, b \in BodyValues :
       EnqueuePair(u, m, h, b)
  \/ ProcessPair

SpecNormalize == Init /\ [][NextNormalize]_vars

(* ---------------- one delivery attempt ---------------- *)

Statuses == {200, 204, 301, 404, 500}
ErrorNames == {"AbortError", "TimeoutError", "TypeError", "Error"}
MessageTexts == {"fetch failed", "ENOTFOUND", "ECONNREFUSED"}

\* processJob arms the 12 s timer and issues the request
DeliveryStart ==
  /\ delivery.phase \in {"idle", "done"}
  /\ delivery' = [phase |-> "fetch", elapsed |-> 0, timer |-> TRUE,
                  statusCode |-> 0, success |-> FALSE, thrown |-> FALSE,
                  name |-> "none", message |-> {}, category |-> "none"]
  /\ UNCHANGED <<core, ext, notifier, api, conn, norm, late>>

\* fetch resolves with the response head: clearTimeout, statusCode, success
FetchResolves(status) ==
  /\ delivery.phase = "fetch"
  /\ delivery' = [delivery EXCEPT !.phase = "body", !.timer = FALSE,
                                  !.statusCode = status,
                                  !.success = responseOk(status)]
  /\ UNCHANGED <<core, ext, notifier, api, conn, norm, late>>

\* fetch rejects with an error of its own
FetchRejects(name, message) ==
  /\ delivery.phase = "fetch"
  /\ delivery' = caught(delivery, name, message)
  /\ UNCHANGED <<core, ext, notifier, api, conn, norm, late>>

\* response.text() settles (a failure of it is swallowed); a 2xx attempt
\* returns, any other throws Error("HTTP <status>: <statusText>") into the catch
BodySettles ==
  /\ delivery.phase = "body"
  /\ delivery' = IF delivery.success
                 THEN [delivery EXCEPT !.phase = "done", !.category = "NONE"]
                 ELSE caught(delivery, "Error", {})
  /\ UNCHANGED <<core, ext, notifier, api, conn, norm, late>>

\* time passes while the attempt is in flight; an armed timer fires when due
DeliveryTick ==
  /\ delivery.phase \in {"fetch", "body"}
  /\ delivery.elapsed < 2 * requestTimeoutMs
  /\ delivery' = abortFetch([delivery EXCEPT
                               !.elapsed = @ + requestTimeoutMs \div TicksPerTimeout])
  /\ UNCHANGED <<core, ext, notifier, api, conn, norm, late>>

NextDelivery ==
  \/ DeliveryStart
  \/ \E status \in Statuses : FetchResolves(status)
  \/ \E name \in ErrorNames, message \in SUBSET MessageTexts :
       FetchRejects(name, message)
  \/ BodySettles
  \/ DeliveryTick

SpecDelivery == Init /\ [][NextDelivery]_vars

(* ---------------- a job through its failed attempts ---------------- *)

Backoffs == {0, 1000, 2000, 3000}

\* POST /queue/webhooks/add with options.retries and options.backoff (0: not given)
RetryEnqueue(retries, backoff) ==
  /\ retry.state = "none"
  /\ retry' = [retry EXCEPT !.state = "waiting",
                            !.attempts = EnqueueAttempts(retries),
                            !.base = EnqueueBackoff(backoff)]
  /\ UNCHANGED exceptRetry

\* the job is handed to a worker slot (its backoff, if any, is over) and fetch() is
\* called
RetryClaim ==
  /\ retry.state \in {"waiting", "delayed"}
  /\ retry.pc = "idle"
  /\ retry' = [retry EXCEPT !.state = "active", !.pc = "fetch", !.applied = -1,
                            !.category = "none",
                            !.callback = NoCallback, !.line = NoLine]
  /\ UNCHANGED exceptRetry

\* the attempt fails with an error of the given name and message: the catch block
\* classifies it, sends the failure callback and rethrows
AttemptFails(name, message) ==
  /\ retry.pc = "fetch"
  /\ retry' = [retry EXCEPT
       !.pc = "thrown",
       !.category = errorCategory(name, message),
       !.callback = failureCallback(retry.attemptsMade, retry.attempts,
                                    errorCategory(name, message))]
  /\ UNCHANGED exceptRetry

\* the attempt succeeds: the queue completes the job
AttemptSucceeds ==
  /\ retry.pc = "fetch"
  /\ retry' = [retry EXCEPT !.state = "completed", !.pc = "idle",
                            !.attemptsMade = @ + 1]
  /\ UNCHANGED exceptRetry

\* the queue engine receives the thrown error: it reschedules the job with its backoff
\* or moves it to failed, then emits "failed" with the job
QueueMoveToFailed ==
  /\ retry.pc = "thrown"
  /\ retry' = [moveToFailedWithBackoff(retry) EXCEPT !.pc = "emitted"]
  /\ UNCHANGED exceptRetry

\* the worker's "failed" listener runs with the job the queue has just moved
FailedListener ==
  /\ retry.pc = "emitted"
  /\ retry' = [retry EXCEPT !.pc = "idle",
                            !.line = failedListener(retry.attemptsMade, retry.attempts)]
  /\ UNCHANGED exceptRetry

NextRetry ==
  \/ \E r \in 0..MaxRetries, b \in Backoffs : RetryEnqueue(r, b)
  \/ RetryClaim
  \/ \E n \in ErrorNames, m \in SUBSET MessageTexts : AttemptFails(n, m)
  \/ AttemptSucceeds
  \/ QueueMoveToFailed
  \/ FailedListener

SpecRetry == Init /\ [][NextRetry]_vars

(* ---------------- the breaker when the worker is stopped ---------------- *)

\* stopWebhookWorker(): the worker_stopping line is logged with getStats(), then
\* webhookWorker.stop() begins closing the worker, which claims no further job
StopWebhookWorker ==
  /\ proc.isRunning
  /\ ~proc.closing
  /\ circuitBreaker' = getStats(circuitBreaker)
  /\ proc' = [proc EXCEPT !.closing = TRUE]
  /\ UNCHANGED <<job, others, hist, obs, lease, notifier, io, late>>

NextStats ==
  \/ NextBreaker
  \/ StopWebhookWorker

SpecStats == Init /\ [][NextStats]_vars

(* ---------------- notifications in flight at shutdown ---------------- *)

\* a delivery in flight is over for a job with a callback URL: processJob has called
\* sendCallback without awaiting it, and the handler has settled
FinishDeliveryNotifying ==
  /\ proc.pc # "exited"
  /\ proc.inflight > 0
  /\ notifier.bg < MaxInflight
  /\ proc' = [proc EXCEPT !.inflight = @ - 1]
  /\ notifier' = sendCallback(notifier)
  /\ UNCHANGED <<core, lease, io, late>>

NextDrain ==
  \/ NextShutdown
  \/ FinishDeliveryNotifying
  \/ CallbackOk
  \/ CallbackHttpError
  \/ CallbackThrows
  \/ CallbackSleepDone
  \/ CallbackOtherReturns

SpecDrain == Init /\ [][NextDrain]_vars

(* ---------------- requests served while the process shuts down ---------------- *)

\* the handler of a health or readiness request goes on after isPaused():
\* getRedisSingleton(), then pingRedisSafe up to its return or its first await
HealthPing ==
  /\ proc.pc # "exited"
  /\ proc.req.endpoint # "none"
  /\ conn.wait.phase = "idle"
  /\ LET c == getRedisSingleton(conn) IN
       conn' = pingAfterWait(waitForReady(
                 [c EXCEPT !.wait = [idleWait EXCEPT
                                       !.caller = "ping",
                                       !.startedClosed =
                                          c.status \in {"end", "close"}]]))
  /\ UNCHANGED <<core, ext, notifier, api, norm, delivery, late>>

\* pingRedisSafe has settled: the response is written
HealthAnswer ==
  /\ proc.pc # "exited"
  /\ proc.req.endpoint # "none"
  /\ conn.wait.phase \in {"returned", "failed"}
  /\ proc' = healthResponse(proc, conn.wait.phase = "returned")
  /\ conn' = [conn EXCEPT !.wait = idleWait]
  /\ UNCHANGED <<core, lease, notifier, api, norm, delivery, late>>

\* redis.quit() of gracefulShutdown resolves: the shared handle has ended, and
\* healthServer.close() is called
SharedQuitEnds ==
  /\ proc.pc = "quitShared"
  /\ proc' = settleAndGoOn([proc EXCEPT !.shared = "closed"], "quitShared")
  /\ conn' = onClose([getRedisSingleton(conn) EXCEPT !.status = "end"])
  /\ UNCHANGED <<core, lease, notifier, api, norm, delivery, late>>

\* the shared handle while the process lives: a connection attempt succeeds or fails,
\* 5 s pass
HandleSteps ==
  /\ proc.pc # "exited"
  /\ (HandleReady \/ HandleError \/ ConnTick)

NextQuiesce ==
  \/ \E component \in Components : GetRedisSingleton(component)
  \/ HandleSteps
  \/ GracefulShutdown
  \/ WorkerClosed
  \/ \E ok \in BOOLEAN : BlockingQuitSettles(ok)
  \/ SharedQuitEnds
  \/ ServerClosed
  \/ \E endpoint \in {"health", "ready"} : HealthBegin(endpoint)
  \/ HealthPing
  \/ HealthAnswer

SpecQuiesce == Init /\ [][NextQuiesce]_vars

(* ---------------- stop() on a stopped worker ---------------- *)

\* stop() is called on the worker once more, after an earlier stop() has returned and
\* while the process lives: "stopping" is logged and worker.close() called only if
\* the worker is running
StopAgain ==
  /\ proc.pc # "exited"
  /\ ~proc.isRunning
  /\ stops < MaxStops
  /\ stops' = stops + 1
  /\ proc' = IF stopBegins(proc)
               THEN [proc EXCEPT !.closing = TRUE, !.blocking = "closing",
                                 !.trace = Append(@, "stopWorker")]
               ELSE proc
  /\ UNCHANGED <<core, lease, notifier, io, retry, request>>

NextStop ==
  \/ NextShutdown
  \/ StopAgain

SpecStop == Init /\ [][NextStop]_vars

(* ---------------- method and deadline of a request ---------------- *)

Timeouts == {0, 4000, 12000, 20000}
JobMethods == {Undef, "", "POST", "PUT"}

\* processJob reaches fetch for a job of the given shape whose data carries the
\* method and, in the canonical shape, destination.timeout (0: not given)
RequestStart(newFormat, method, timeoutMs) ==
  /\ request.phase \in {"idle", "done"}
  /\ newFormat \/ timeoutMs = 0
  /\ request' = [phase |-> "fetch",
                 shape |-> IF newFormat THEN "canonical" ELSE "legacy",
                 jobMethod |-> method, jobTimeout |-> timeoutMs,
                 method |-> fetchMethod(deliveryRequest(
                              IF newFormat
                                THEN canonicalData("https://a.example/hook", method,
                                                   Undef, Undef)
                                ELSE legacyData("https://a.example/hook", method,
                                                Undef, Undef)).method),
                 deadline |-> requestDeadline(timeoutMs),
                 elapsed |-> 0, aborted |-> FALSE]
  /\ UNCHANGED exceptRequest

\* time passes with no response: the abort timer fires when its delay is over
RequestTick ==
  /\ request.phase = "fetch"
  /\ LET e == request.elapsed + requestTimeoutMs \div TicksPerTimeout IN
       request' = IF e >= request.deadline
                  THEN [request EXCEPT !.elapsed = e, !.aborted = TRUE,
                                       !.phase = "done"]
                  ELSE [request EXCEPT !.elapsed = e]
  /\ UNCHANGED exceptRequest

\* the destination answers before the timer fires
RequestResolves ==
  /\ request.phase = "fetch"
  /\ request' = [request EXCEPT !.phase = "done"]
  /\ UNCHANGED exceptRequest

NextRequest ==
  \/ \E f \in BOOLEAN, m \in JobMethods, t \in Timeouts : RequestStart(f, m, t)
  \/ RequestTick
  \/ RequestResolves

SpecRequest == Init /\ [][NextRequest]_vars

(* ======================= properties ======================= *)

Terminal == job.state \in {"completed", "failed"}

CountOf(cbs, status) == Cardinality({i \in DOMAIN cbs : cbs[i] = status})

\* C1 (SpecAlone500): a job processed alone, with a callback URL, whose destination
\* answers 500 to every request and whose maxAttempts is N ends Dead after exactly N
\* requests and exactly one callback with status "failed".
C1_Claim ==
  (Terminal /\ job.callback) =>
     /\ hist.requests = job.attempts
     /\ job.state = "failed"
     /\ CountOf(hist.callbacks, "failed") = 1

C3_Theorem ==
  /\ [](job.success =>
          /\ job.state \in {"active", "completed"}
          /\ job.state = "active" => job.pc = "log"
          /\ hist.requests = 1 =>
               hist.callbacks = IF job.callback THEN <<"success">> ELSE <<>>)
  /\ [][job.success => (job'.success /\ hist'.requests = hist.requests)]_vars

C3_Witness ==
  job.state = "completed" /\ hist.requests = 1 /\ job.callback
    /\ hist.callbacks = <<"success">>

\* C4: an attempt that starts while the breaker is open (failures >= 5, less than
\* 60 s since the last failure) issues no request: it is over at once, the job being
\* rescheduled or Dead, whatever the other worker slots are doing.
C4_Theorem ==
  hist.startedOpen => (job.pc = "idle" /\ job.state \in {"delayed", "failed"})

C4_Witness == hist.startedOpen /\ hist.fastFails >= 1 /\ others.fetch > 0

\* C5: an attempt that fails fast on the open breaker consumes exactly one attempt and
\* is followed by the same bookkeeping as a failed delivery: the job is rescheduled
\* with backoff 2000 * 2^(k-1) after its k-th attempt when attempts remain, and is Dead
\* otherwise.
C5_Theorem ==
  [][(hist'.fastFails = hist.fastFails + 1 \/ (job.pc = "errlog" /\ job'.pc = "idle")) =>
       /\ job'.attemptsMade = job.attemptsMade + 1
       /\ IF job.attemptsMade + 1 < job.attempts
            THEN job'.state = "delayed" /\ job'.delay = 2000 * Pow2(job.attemptsMade)
            ELSE job'.state = "failed"]_vars

C5_Witness ==
  hist.startedOpen /\ job.state = "delayed" /\ job.delay > 0
    /\ job.attemptsMade < job.attempts

\* C6: an attempt that issued a request updates the breaker exactly once: no attempt
\* makes two recordSuccess/recordFailure calls, and one whose response has been
\* handled has made one.
C6_Claim ==
  /\ hist.updates <= 1
  /\ job.pc \in {"log", "errlog"} => hist.updates = 1

\* C7 (SpecBreaker): once the failure counter has reached 5, every isOpen() call made
\* less than 60 s after the most recent recordFailure returns true.
C7_Claim == lastCall.afterOpen => lastCall.result

\* C8 (SpecBreaker): isOpen() returns true exactly when, at the call, the failure
\* counter is at least 5 and less than 60 s have elapsed since the last failure.
C8_Theorem == lastCall.result <=> lastCall.expected

C8_Witness == lastCall.result /\ lastCall.expected /\ circuitBreaker.successes > 0

\* C9 (SpecBreaker): the failure counter goes from a positive value to 0 only in a
\* step that records a success, the third of three recorded in a row.
C9_Theorem ==
  [][(circuitBreaker.failures > 0 /\ circuitBreaker'.failures = 0) =>
       /\ Len(recent') >= 3
       /\ \A i \in (Len(recent') - 2)..Len(recent') : recent'[i] = "S"
       /\ circuitBreaker.successes = 2]_vars

C9_Witness == circuitBreaker.failures = 0 /\ recent = <<"F", "S", "S", "S">>

\* C10: attemptsMade never decreases and never exceeds maxAttempts, and no more than
\* maxAttempts processing attempts are started for a job.
C10_Theorem ==
  /\ [](/\ job.attemptsMade <= job.attempts
        /\ hist.requests + hist.fastFails <= job.attempts)
  /\ [][job'.attemptsMade >= job.attemptsMade]_vars

C10_Witness ==
  job.state = "failed" /\ job.attempts >= 2 /\ job.attemptsMade = job.attempts
    /\ hist.requests = job.attempts

\* C11 (SpecLease): at every instant at most one worker holds an unexpired lock on the
\* job, whatever the workers claiming, renewing, hanging, resuming and finishing.
C11_Theorem == Cardinality({w \in Workers : lease.ttl[w] > 0}) <= 1

C11_Witness ==
  \E w1, w2 \in Workers :
     /\ w1 # w2
     /\ lease.ttl[w2] > 0
     /\ lease.running[w1] = "working" /\ lease.ttl[w1] = 0
     /\ lease.stalledCounter >= 1

\* C12 as stated (SpecLease): a job that has stalled maxStalledCount (2) times is Dead.
C12_Original == lease.stalledCounter >= 2 => lease.state = "failed"

\* C12 as amended (SpecLease): an active job whose lock has expired is marked, so the
\* next stall check finds it stalled; that check puts it back to waiting at its first
\* and second stall and moves it to Dead at its third, whatever attemptsMade is.
C12_Amended ==
  /\ []((lease.state = "active" /\ ~lockHeld(lease)) => lease.marked)
  /\ [][(lease.sinceCheck >= 30000 /\ lease'.sinceCheck = 0
           /\ lease.state = "active" /\ ~lockHeld(lease)) =>
         /\ lease'.stalledCounter = lease.stalledCounter + 1
         /\ lease'.state = IF lease.stalledCounter + 1 > 2 THEN "failed" ELSE "waiting"]_vars

C12_Witness ==
  lease.state = "failed" /\ lease.stalledCounter = 3 /\ lease.attemptsMade < DefaultAttempts

\* C13 (SpecCallback): whatever a sendCallback call does, the job is left alone: a
\* step of sendCallback changes nothing of the job, a Completed job is one whose
\* delivery was answered 2xx, and the handler that has had its 2xx can return, and the
\* job complete, while sendCallback is still posting or pausing.
C13_Theorem ==
  /\ []((job.pc = "log" /\ job.success) => ENABLED LogDoneReturn)
  /\ [](job.state = "completed" => job.success)
  /\ [][(notifier' # notifier /\ hist'.callbacks = hist.callbacks) =>
          (job' = job /\ hist' = hist)]_vars

C13_Witness ==
  /\ job.state = "completed"
  /\ notifier.phase \in {"fetch", "sleep"}
  /\ notifier.attempt >= 2
  /\ hist.callbacks = <<"success">>

\* C14 (SpecCallback): one sendCallback call issues at most 3 POSTs, issues none after
\* a 2xx answer, and ends, by returning, after a 2xx or after its third failed POST.
C14_Theorem ==
  /\ [](/\ notifier.posts <= 3
        /\ notifier.ok => notifier.phase = "returned"
        /\ notifier.phase = "returned" => (notifier.ok \/ notifier.posts = 3))
  /\ [][notifier.ok => (notifier'.posts = notifier.posts \/ notifier'.posts = 1)]_vars

C14_Witness ==
  notifier.phase = "returned" /\ ~notifier.ok /\ notifier.posts = 3

IsPrefix(a, b) == Len(a) <= Len(b) /\ \A i \in 1..Len(a) : a[i] = b[i]

\* the teardown steps logged so far, a final forced exit left out
TeardownSoFar ==
  LET t == proc.trace IN
  IF Len(t) > 0 /\ t[Len(t)] = "exit1" THEN SubSeq(t, 1, Len(t) - 1) ELSE t

\* C15 (SpecShutdown): the teardown started by the first signal runs in this order,
\* each step starting when the one before has settled: worker stop, blocking handle,
\* shared handle, HTTP server, exit 0; the worker stop has settled only with no job in
\* flight; an exit with status 0 has the whole sequence behind it.
C15_Theorem ==
  /\ IsPrefix(TeardownSoFar, TeardownOrder)
  /\ Len(TeardownSoFar) >= 2 => proc.inflight = 0
  /\ proc.exitCode = 0 => proc.trace = TeardownOrder

C15_Witness ==
  proc.exitCode = 0 /\ proc.trace = TeardownOrder /\ proc.signals = 1

\* C16 (SpecShutdown): while a delivery is in flight neither the worker's blocking
\* handle nor the shared handle is being closed or closed.
C16_Theorem ==
  proc.inflight > 0 => (proc.blocking = "open" /\ proc.shared = "open")

C16_Witness ==
  proc.sawInflight /\ proc.blocking = "closed" /\ proc.shared = "closed"

\* C17 as stated (SpecShutdown): the process exits with status 0 only when no teardown
\* step has failed.
C17_Original ==
  proc.exitCode = 0 =>
    (proc.blocking = "closed" /\ proc.shared = "closed" /\ proc.server = "closed")

\* C17 as amended (SpecShutdown): after the first signal the process exits; it exits
\* with 0 only after worker stop, blocking-handle close, shared-handle close and
\* HTTP-server close have all settled (a close that failed counts as settled), and
\* every exit that comes before that, by the 30 s timer, a 10 s timer or a rejected
\* worker stop, has status 1.
C17_Amended ==
  /\ proc.isShuttingDown ~> (proc.pc = "exited")
  /\ [](proc.exitCode = 0 =>
          /\ proc.trace = TeardownOrder
          /\ proc.blocking \in {"closed", "error"}
          /\ proc.shared \in {"closed", "error"}
          /\ proc.server = "closed")
  /\ []((proc.pc = "exited" /\ proc.trace # TeardownOrder) => proc.exitCode = 1)

C17_Witness == proc.exitCode = 0 /\ proc.shared = "error"

\* C18 (SpecShutdown): a signal handled while the shutdown is in progress changes
\* nothing but the 10 s timer, which it sets; worker stop, shared-handle close and
\* HTTP-server close are each started at most once.
C18_Theorem ==
  /\ [](/\ CountOf(proc.trace, "stopWorker") <= 1
        /\ CountOf(proc.trace, "quitShared") <= 1
        /\ CountOf(proc.trace, "closeServer") <= 1
        /\ proc.forceTimer # -1 => proc.signals >= 2)
  /\ [][(proc.isShuttingDown /\ proc'.signals = proc.signals + 1) =>
          proc' = [proc EXCEPT !.signals = @ + 1,
                               !.forceTimer = IF @ = -1 THEN 10000 ELSE @]]_vars

C18_Witness ==
  proc.signals >= 2 /\ proc.exitCode = 1 /\ proc.forceTimer = 0 /\ proc.elapsed < 30000

\* C19 (SpecShutdown): a health or readiness response written during the shutdown has
\* HTTP status 503 and status "unhealthy" (not ready), whatever the ping and the
\* worker; a health response written outside the shutdown has status 200 exactly when
\* the ping succeeded and the worker is active.
C19_Theorem ==
  proc.resp.endpoint # "none" =>
    /\ proc.resp.shutting => (proc.resp.code = 503 /\ proc.resp.status = "unhealthy")
    /\ (~proc.resp.shutting /\ proc.resp.endpoint = "health") =>
         (proc.resp.code = 200 <=> (proc.resp.ping /\ proc.resp.active))

C19_Witness ==
  proc.resp.endpoint = "health" /\ proc.resp.shutting /\ proc.resp.ping
    /\ proc.resp.code = 503 /\ proc.pc = "stopWorker"

\* C20 (SpecTenant): a job whose data has no tenantId is Dead after its first
\* processing attempt, whatever attempts it has left.
C20_Claim ==
  (~job.tenantId /\ job.attemptsMade >= 1) => job.state = "failed"

\* C21 (SpecEnqueue): a request adds a job only if it is authenticated (valid
\* signature of the body or valid Bearer token) and carries the required fields
\* of its shape; a request answered 400 or 401 leaves the queue as it was, and
\* an accepted request adds exactly one job.
C21_Theorem ==
  [][/\ api'.queue # api.queue =>
          /\ api'.last.sigOk \/ api'.last.tokenOk
          /\ api'.last.complete
          /\ api'.last.code = 201
          /\ Len(api'.queue) = Len(api.queue) + 1
          /\ SubSeq(api'.queue, 1, Len(api.queue)) = api.queue
     /\ api'.last.code # 201 => api'.queue = api.queue]_vars

C21_Witness ==
  /\ Len(api.queue) = 1
  /\ api.last.code = 401
  /\ api.last.tokenOk
  /\ ~api.last.sigOk

\* C22 (SpecConnection): the process holds at most one non-blocking shared
\* connection: the handle a request for the shared handle returns is the only
\* non-blocking connection the module has created.
C22_Claim == conn.singleton # 0 => conn.created = 1

\* C23 (SpecConnection): no command is issued on the shared handle while its
\* state is not Ready.
C23_Claim == conn.lastCmd.kind # "none" => conn.lastCmd.status = "ready"

\* C24 as stated (SpecConnection): a waitForReady call fails only once timeoutMs
\* has elapsed.
C24_Original == conn.wait.phase = "failed" => conn.wait.elapsed >= waitTimeoutMs

\* C24 amended (SpecConnection): waitForReady returns only with the handle Ready;
\* every call ends, returned or failed; it fails when the handle signals an
\* error, when the reconnect it started fails, or when timeoutMs has elapsed; on
\* a closed handle it starts exactly one reconnect and re-enters at most once,
\* and on any other handle it starts none.
C24_Amended ==
  /\ [][(conn'.wait # conn.wait /\ conn'.wait.phase = "returned")
          => conn'.status = "ready"]_vars
  /\ (conn.wait.phase \in {"listening", "awaitConnect"})
       ~> (conn.wait.phase \in {"returned", "failed"})
  /\ [](conn.wait.phase = "failed" =>
          \/ conn.wait.cause = "timeout" /\ conn.wait.elapsed >= waitTimeoutMs
          \/ conn.wait.cause = "error"
          \/ conn.wait.cause = "connect" /\ conn.wait.startedClosed)
  /\ [](conn.wait.phase = "listening" => conn.wait.elapsed < waitTimeoutMs)
  /\ [](conn.wait.phase # "idle" =>
          IF conn.wait.startedClosed
          THEN conn.wait.reconnects = 1 /\ conn.wait.reentries <= 1
          ELSE conn.wait.reconnects = 0 /\ conn.wait.reentries = 0)

C24_Witness ==
  /\ conn.wait.phase = "failed"
  /\ conn.wait.cause = "error"
  /\ conn.wait.elapsed < waitTimeoutMs

C26_Claim == norm.phase = "processed" => norm.legacy = norm.canonical

\* the category the cause of a thrown error calls for
CategoryOfCause(name, message) ==
  IF name \in {"AbortError", "TimeoutError"} THEN "TIMEOUT"
  ELSE IF "ENOTFOUND" \in message THEN "DNS_ERROR"
  ELSE IF "ECONNREFUSED" \in message THEN "CONNECTION_REFUSED"
  ELSE IF "fetch failed" \in message THEN "CONNECTION_FAILED"
  ELSE "UNKNOWN_ERROR"

\* C27 (SpecDelivery): a finished attempt has the one category of its cause:
\* none for a 2xx response, HTTP error with its status code for any other
\* response, and for a failed request Timeout, DnsError, ConnectionRefused,
\* ConnectionFailed or Unknown by what failed.
C27_Claim ==
  delivery.phase = "done" =>
    IF delivery.statusCode # 0
    THEN IF responseOk(delivery.statusCode)
         THEN delivery.category = "NONE"
         ELSE delivery.category = "HTTP_ERROR"
    ELSE delivery.category = CategoryOfCause(delivery.name, delivery.message)

\* C30 (SpecDelivery): an attempt in flight, waiting for the response or reading
\* its body, has not passed its 12 s deadline.
C30_Claim ==
  delivery.phase \in {"fetch", "body"} => delivery.elapsed < requestTimeoutMs

\* C28 (SpecTenant): a job that carries a callback URL and is Dead has had a
\* callback sent, and the last one sent has status "failed".
C28_Claim ==
  (job.callback /\ job.state = "failed") =>
    /\ Len(hist.callbacks) > 0
    /\ hist.callbacks[Len(hist.callbacks)] = "failed"

C31_Claim ==
  retry.state = "delayed" /\ retry.pc = "idle"
    => /\ retry.callback.nextRetryIn = retry.applied
       /\ retry.line.delay_ms = retry.applied

\* C35: for every failed attempt the callback says "retrying" and the listener says
\* job_retry exactly when the queue reschedules the job, "failed" and job_dead exactly
\* when the queue moves it to failed, with the same attempt number and maxAttempts
C35_Claim ==
  retry.line.event # "none"
    => /\ retry.callback.status = "retrying" <=> retry.state = "delayed"
       /\ retry.line.event = "job_retry" <=> retry.state = "delayed"
       /\ retry.callback.status = "failed" <=> retry.state = "failed"
       /\ retry.line.event = "job_dead" <=> retry.state = "failed"
       /\ retry.callback.attempt = retry.attemptsMade
       /\ retry.line.attempt = retry.attemptsMade
       /\ retry.callback.maxAttempts = retry.attempts
       /\ retry.line.max_attempts = retry.attempts

\* C39: in every failure callback, error.isRetryable is true exactly when the
\* callback's status is "retrying"
C39_Claim ==
  retry.callback.status # "none"
    => (retry.callback.isRetryable <=> retry.callback.status = "retrying")

\* C32: the deadline of a delivery is the job's destination.timeout when the job
\* supplies one and 12 s only when it is absent; the method is the job's method, or
\* POST when the job gives none
C32_Claim ==
  request.phase # "idle"
    => /\ request.deadline = (IF request.jobTimeout # 0 THEN request.jobTimeout
                                                         ELSE requestTimeoutMs)
       /\ request.method = (IF truthy(request.jobMethod) THEN request.jobMethod
                                                         ELSE "POST")
       /\ request.aborted => request.elapsed >= request.deadline

\* C33 (SpecBreaker): an isOpen() call made with the failure counter at 5 or more
\* after the cooldown has elapsed returns false and takes exactly one off the
\* counter, leaving the success counter and the last-failure time as they were
C33_Theorem ==
  [][(/\ lastCall' # lastCall \/ others'.fetch > others.fetch
      /\ circuitBreaker.failures >= threshold
      /\ circuitBreaker.sinceLastFailure >= timeout)
       => /\ ~lastCall'.result
          /\ others'.fetch = others.fetch + 1
          /\ circuitBreaker'.failures = circuitBreaker.failures - 1
          /\ circuitBreaker'.successes = circuitBreaker.successes
          /\ circuitBreaker'.sinceLastFailure = circuitBreaker.sinceLastFailure]_vars

C33_Witness ==
  /\ circuitBreaker.failures = threshold - 1
  /\ circuitBreaker.sinceLastFailure >= timeout
  /\ recent = <<"F", "F", "F", "F", "F">>
  /\ ~lastCall.result /\ ~lastCall.expected
  /\ others.fetch > 0

\* C40: getStats() leaves the failure counter, the success counter and the
\* last-failure time unchanged, in whatever state the breaker is when it is called
C40_Claim ==
  [][(proc'.closing /\ ~proc.closing) => circuitBreaker' = circuitBreaker]_vars

C36_Claim ==
  (proc.pc = "exited" /\ proc.exitCode = 0)
    => (notifier.phase \notin {"fetch", "sleep"} /\ notifier.bg = 0)

\* C37: once shutdown has closed the shared handle, the handle stays ended and no
\* command is issued on it, whatever requests are being served until the exit
C37_Claim ==
  [][proc.shared = "closed"
       => (conn'.status = "end" /\ conn'.lastCmd = conn.lastCmd)]_vars

\* C38 (SpecStop): stop() closes the worker and its blocking handle only: the shared
\* handle is open all the while stop() runs and when it returns, with the blocking
\* handle settled; the shared handle changes only in the coordinator's own step on
\* it; a stop() call on a worker that has stopped changes nothing
C38_Theorem ==
  /\ [](proc.pc \in {"stopWorker", "quitBlocking"} => proc.shared = "open")
  /\ [][(proc.isRunning /\ ~proc'.isRunning)
          => (proc.shared = "open" /\ proc'.blocking \in {"closed", "error"})]_vars
  /\ [][proc'.shared # proc.shared
          => (proc'.pc = "quitShared" \/ proc.pc = "quitShared")]_vars
  /\ [][stops' # stops => proc' = proc]_vars

C38_Witness ==
  /\ stops > 0
  /\ ~proc.isRunning
  /\ proc.blocking = "closed"
  /\ proc.shared = "closing"

====
